---------------------------- MODULE Spec2Model ----------------------------
(***************************************************************************)
(* Model of the portfolio feedback backend: the store gateway (getDb), the *)
(* feedback routes (GET / POST / DELETE /api/feedback), the health check,  *)
(* the Socket.IO chat:send handler, startServer and the SIGINT / SIGTERM   *)
(* handlers of db.ts.                                                      *)
(*                                                                         *)
(* Every handler is an async function.  A handler runs synchronously up to *)
(* an await of real I/O (connect, ping, createIndex, find, insertOne,      *)
(* deleteOne); an await of an already settled promise resumes in a         *)
(* microtask, before any other handler can run.  One action of the model   *)
(* is one such uninterrupted run.                                          *)
(***************************************************************************)
EXTENDS Integers, Sequences, FiniteSets, TLC

VARIABLES
    client,     \* db.ts `client`: "null" or "set" (a MongoClient object)
    connected,  \* whether client.connect() of that object has succeeded
    connects,   \* number of client.connect() invocations so far
    phase,      \* process: "boot" | "listening" | "exited"
    slot,       \* slot[c]: the async invocation run by caller c (0 = startServer)
    coll,       \* the `feedback` collection, in insertion (natural) order
    origin,     \* origin[i]: the handler that inserted the document with id i, and its slug
    now,        \* the wall clock read by `new Date()`
    clients     \* the sockets connected to the Socket.IO server

vars == <<client, connected, connects, phase, slot, coll, origin, now,
          clients>>

-----------------------------------------------------------------------------
(* Bounds of the model *)

MaxIds == 2        \* documents inserted in one run of Spec
MaxClock == 1      \* the clock stops advancing here
Over == 2          \* SpecCap: documents inserted beyond limit(150)
Varied == 2        \* SpecCap: leading inserts of either slug and any clock

(* Program constants *)

SlugMax == 200
NameMax == 40
MessageMax == 1000
Limit == 150

Sig == 3               \* the invocation of the SIGINT / SIGTERM handler
Callers == {0, 1, 2, Sig}  \* async invocations: 0 is startServer, 1 and 2 handlers
Req == {1}             \* the handler invocations of Spec: one request at a time
Sock == {1, 2}         \* socket ids

-----------------------------------------------------------------------------
(* Values.  A JSON / JS value is either undefined, not a string, or a      *)
(* string; a string is abstracted to its text without surrounding white    *)
(* space (tag), the length of that text (len) and the number of white      *)
(* space characters around it (pad).                                       *)

Str(tag, pad, len) == [k |-> "str", tag |-> tag, pad |-> pad, len |-> len]
Undef == [k |-> "undef", tag |-> "", pad |-> 0, len |-> 0]
NonStr == [k |-> "other", tag |-> "5", pad |-> 0, len |-> 0]
Empty == Str("", 0, 0)

IsString(v) == v.k = "str"
Length(v) == v.pad + v.len
\* String.prototype.trim / zod .trim()
Trim(v) == [v EXCEPT !.pad = 0]
\* JS truthiness: undefined and "" are falsy, other strings and the
\* non-string value (a non-zero number, an array, an object) are truthy
Truthy(v) ==
    CASE v.k = "str" -> Length(v) > 0
      [] v.k = "undef" -> FALSE
      [] OTHER -> TRUE
\* String(v) of a value that is not undefined: the text of a non-string
StringOf(v) == IF IsString(v) THEN v ELSE Str(v.tag, 0, 1)
\* a || b
OrElse(a, b) == IF Truthy(a) THEN a ELSE b
\* a ?? b
Coalesce(a, b) == IF a.k = "undef" THEN b ELSE a
\* zod .email(): the text is an address (tag "addr") with nothing around it
IsEmail(v) == IsString(v) /\ v.tag = "addr" /\ v.pad = 0 /\ v.len > 0

Anon == Str("anon", 0, 2)      \* the placeholder name

-----------------------------------------------------------------------------
(* BodySchema *)

SlugOk(v) == IsString(v) /\ Length(v) >= 1 /\ Length(v) <= SlugMax
NameOk(v) == v = Undef
             \/ (IsString(v) /\ Length(Trim(v)) >= 1 /\ Length(Trim(v)) <= NameMax)

\* Mutant of MessageOk: the length is checked without trimming
MessageOkUntrimmed(v) == IsString(v) /\ Length(v) >= 1 /\ Length(v) <= MessageMax

MessageOk(v) == IsString(v) /\ Length(Trim(v)) >= 1
                /\ Length(Trim(v)) <= MessageMax
EmailOk(v) == v = Undef \/ IsEmail(v) \/ v = Empty
HpOk(v) == v = Undef \/ IsString(v)

\* BodySchema.safeParse(body).success
SchemaOk(b) == SlugOk(b.slug) /\ NameOk(b.name) /\ MessageOk(b.message)
               /\ EmailOk(b.email) /\ HpOk(b.hp)

\* BodySchema.safeParse(body).data, for a body that passes
Parsed(b) == [slug |-> b.slug,
              name |-> IF b.name = Undef THEN Undef ELSE Trim(b.name),
              message |-> Trim(b.message),
              email |-> b.email,
              hp |-> b.hp]


\* Mutant of Honeypot: the honeypot check is left out
HoneypotIgnored(p) == FALSE

\* hp && hp.trim()
Honeypot(p) == Truthy(p.hp) /\ Truthy(Trim(p.hp))

\* ObjectId.isValid(id): the path parameter is a 24 digit hex string or not
IsValidId(x) == x.hex


-----------------------------------------------------------------------------
(* Documents of the `feedback` collection and the store's operations *)

\* A request's or handshake's network side: the x-forwarded-for header
\* (absent, or its first entry and the number of entries after it) and the
\* peer address (absent or a string).
NoHeader == [first |-> Undef, more |-> 0]
Header(first, more) == [first |-> first, more |-> more]
Net(forwarded, address) == [forwarded |-> forwarded, address |-> address]

Addr == Str("ip", 0, 9)
Unknown == Str("unknown", 0, 7)

\* if (forwarded): the header is there and is not the empty string
Forwarded(h) == h.first # Undef /\ (Length(h.first) > 0 \/ h.more > 0)

\* getClientIp: forwarded.split(",")[0].trim(), else the address || "unknown"
GetClientIp(net) ==
    IF Forwarded(net.forwarded)
    THEN Trim(net.forwarded.first)
    ELSE OrElse(net.address, Unknown)

\* POST: newFeedback (email || undefined)
NewFeedback(p, ip, t) ==
    [slug |-> p.slug,
     name |-> IF p.name = Undef THEN Anon ELSE p.name,
     message |-> p.message,
     email |-> OrElse(p.email, Undef),
     clientIp |-> ip,
     createdAt |-> t]

\* chat:send: newMsg, built from the unvalidated event data (data.name || "익명")
NewMsg(data, ip, t) ==
    [slug |-> data.slug,
     name |-> OrElse(data.name, Anon),
     message |-> data.message,
     email |-> Undef,
     clientIp |-> ip,
     createdAt |-> t]

NoDoc == NewMsg([slug |-> Undef, name |-> Undef, message |-> Undef], Undef, 0)

\* the stored document: the driver adds the generated _id
WithId(d, i) ==
    [id |-> i, slug |-> d.slug, name |-> d.name, message |-> d.message,
     email |-> d.email, clientIp |-> d.clientIp, createdAt |-> d.createdAt]

\* the next ObjectId the driver generates
NextId == Len(origin) + 1

Ids(s) == {s[i].id : i \in 1..Len(s)}

Reverse(s) == [i \in 1..Len(s) |-> s[Len(s) + 1 - i]]

\* Mutant of Take: limit(150) is not applied
TakeAll(s, n) == s

Take(s, n) == IF Len(s) <= n THEN s ELSE SubSeq(s, 1, n)

\* Mutant of Before: sort({createdAt: 1})
BeforeAsc(a, b) == a.createdAt <= b.createdAt

\* sort({createdAt: -1}): a comes before b
Before(a, b) == a.createdAt >= b.createdAt

\* the stable merge of two sorted runs: around the middle document x of a,
\* with the documents of b that must come before x ahead of it
RECURSIVE Merge(_, _)
Merge(a, b) ==
    IF a = <<>> THEN b
    ELSE IF b = <<>> THEN a
    ELSE LET h == (Len(a) + 1) \div 2
             x == a[h]
             p == Cardinality({j \in 1..Len(b) : ~Before(x, b[j])})
         IN Merge(SubSeq(a, 1, h - 1), SubSeq(b, 1, p))
            \o <<x>>
            \o Merge(SubSeq(a, h + 1, Len(a)), SubSeq(b, p + 1, Len(b)))

RECURSIVE SortDesc(_)
SortDesc(s) ==
    IF Len(s) <= 1 THEN s
    ELSE LET h == Len(s) \div 2
         IN Merge(SortDesc(SubSeq(s, 1, h)), SortDesc(SubSeq(s, h + 1, Len(s))))

\* find({slug})
Matching(c, slug) == SelectSeq(c, LAMBDA d : d.slug = slug)

\* find({slug}).sort({createdAt: -1}).limit(150).toArray(): the store leaves
\* the order of documents with equal createdAt open; rev picks one of two.
Find(c, slug, rev) ==
    LET m == Matching(c, slug)
    IN Take(SortDesc(IF rev THEN Reverse(m) ELSE m), Limit)

\* the response's projection of a document (no email)
Project(d) ==
    [id |-> d.id, slug |-> d.slug, name |-> d.name, message |-> d.message,
     clientIp |-> d.clientIp, createdAt |-> d.createdAt]

Response(f) == [i \in 1..Len(f) |-> Project(f[i])]

\* Mutant of Without: deleteOne removes nothing
WithoutNone(c, i) == c

\* deleteOne({_id}): the collection without the document of that id
Without(c, i) == SelectSeq(c, LAMBDA d : d.id # i)

\* responseMsg of chat:send
ResponseMsg(d, i) ==
    [id |-> i, slug |-> d.slug, name |-> d.name, message |-> d.message,
     clientIp |-> d.clientIp, createdAt |-> d.createdAt]


\* io.emit("chat:newMessage", msg) by invocation s: one event, delivered to
\* every socket connected now
IoEmit(s, msg) ==
    [s EXCEPT !.emits = Append(@, [event |-> "chat:newMessage", msg |-> msg,
                                   to |-> clients])]

-----------------------------------------------------------------------------
(* Invocations *)

NoId == [hex |-> FALSE, n |-> 0]
NoArg == [slug |-> Undef, name |-> Undef, message |-> Undef, email |-> Undef,
          hp |-> Undef, id |-> NoId, net |-> Net(NoHeader, Addr)]

\* the handshake of socket k: socket 1 comes with the x-forwarded-for
\* header ",", socket 2 has neither the header nor an address
Handshake(k) ==
    IF k = 1 THEN Net(Header(Empty, 1), Addr)
    ELSE Net(NoHeader, Undef)

\* kind: what runs; pc: the await it is suspended at ("done": it has
\* returned); arg: its input; doc: the document it built; status, out, rid:
\* its HTTP response (status 0: none); calls: the gateway and store calls it
\* has made; after: the id counter when it started; sock: the sending
\* socket; emits: the Socket.IO events it has emitted; threw: whether an
\* await of it threw.
Idle == [kind |-> "idle", pc |-> "idle", arg |-> NoArg, doc |-> NoDoc,
         status |-> 0, out |-> <<>>, rid |-> 0, calls |-> <<>>, after |-> 0,
         sock |-> 0, emits |-> <<>>, threw |-> FALSE]

Invocation(kind, arg) ==
    [Idle EXCEPT !.kind = kind, !.pc = "run", !.arg = arg, !.after = NextId]

\* res.status(n).json(...) and return
Respond(s, n) == [s EXCEPT !.pc = "done", !.status = n]

Free(c) == slot[c].pc \in {"idle", "done"}

\* the process has not exited
Running == phase # "exited"

\* documents that started insertOne calls may still add
Pending == Cardinality({c \in Callers : slot[c].pc = "insertOne"})

Times == {t \in {now, now + 1} : t <= MaxClock}

\* a POST of body b stays within cap generated ids
Room(b, cap) ==
    (SchemaOk(b) /\ ~Honeypot(Parsed(b))) => NextId + Pending <= cap

-----------------------------------------------------------------------------
(* getDb and the handlers' continuations *)

Called(s, f) == [s EXCEPT !.calls = Append(@, f)]

\* The code a caller runs once `await getDb()` has given it the handle, up
\* to its next await.  t is the clock value `new Date()` reads.
Resume(s, t) ==
    CASE s.kind = "GET" ->
           Called([s EXCEPT !.pc = "createIndex"], "createIndex")
      [] s.kind = "POST" ->
           Called([s EXCEPT !.pc = "insertOne",
                            !.doc = NewFeedback(Parsed(s.arg),
                                               GetClientIp(s.arg.net), t)],
                  "insertOne")
      [] s.kind = "CHAT" ->
           Called([s EXCEPT !.pc = "insertOne",
                            !.doc = NewMsg(s.arg, GetClientIp(Handshake(s.sock)),
                                           t)],
                  "insertOne")
      [] s.kind = "DELETE" ->
           Called([s EXCEPT !.pc = "deleteOne"], "deleteOne")
      [] s.kind = "CALL" ->
           [s EXCEPT !.pc = "done",
                     !.out = <<[handle |-> "db", connected |-> connected]>>]
      [] OTHER ->
           Called([s EXCEPT !.pc = "adminPing"], "adminPing")

\* whether the caller reads the clock when it resumes
Stamps(s) == s.kind \in {"POST", "CHAT"}


\* Mutant of Catch: chat:send has no try/catch and its rejection ends the process
CatchUnhandled(c, s0) ==
    LET s == [s0 EXCEPT !.threw = TRUE]
    IN /\ slot' = [slot EXCEPT ![c] =
                     IF s.kind \in {"CHAT", "BOOT", "CALL"}
                     THEN [s EXCEPT !.pc = "done"]
                     ELSE Respond(s, 500)]
       /\ phase' = IF s.kind \in {"CHAT", "BOOT"} THEN "exited" ELSE phase

\* Mutant of Catch: the catch block logs and sends no response
CatchSilent(c, s0) ==
    /\ slot' = [slot EXCEPT ![c] = [s0 EXCEPT !.threw = TRUE, !.pc = "done"]]
    /\ phase' = IF s0.kind = "BOOT" THEN "exited" ELSE phase

\* An await of caller c throws and its catch block runs: the routes and the
\* health check answer 500, chat:send only logs, startServer exits; a bare
\* getDb call (SpecGateway) has thrown to its caller.
Catch(c, s0) ==
    LET s == [s0 EXCEPT !.threw = TRUE]
    IN /\ slot' = [slot EXCEPT ![c] =
                     IF s.kind \in {"CHAT", "BOOT", "CALL"}
                     THEN [s EXCEPT !.pc = "done"]
                     ELSE Respond(s, 500)]
       /\ phase' = IF s.kind = "BOOT" THEN "exited" ELSE phase


\* Mutant of GetDb: the client is not memoized, every call connects anew
GetDbNoMemo(c, s0, t) ==
    /\ client' = "set"
    /\ connected' = FALSE
    /\ connects' = connects + 1
    /\ slot' = [slot EXCEPT ![c] = [Called(s0, "getDb") EXCEPT !.pc = "connect"]]
    /\ now' = now

\* getDb(), from the call to its first await or, with `client` set, to the
\* caller's next await
GetDb(c, s0, t) ==
    LET s == Called(s0, "getDb")
    IN IF client = "null"
       THEN /\ client' = "set"
            /\ connected' = FALSE
            /\ connects' = connects + 1
            /\ slot' = [slot EXCEPT ![c] = [s EXCEPT !.pc = "connect"]]
            /\ now' = now
       ELSE /\ UNCHANGED <<client, connected, connects>>
            /\ slot' = [slot EXCEPT ![c] = Resume(s, t)]
            /\ now' = IF Stamps(s) THEN t ELSE now

\* await client.connect() settles
ConnectDone(c, ok) ==
    /\ Running
    /\ slot[c].pc = "connect"
    /\ IF ok
       THEN /\ connected' = TRUE
            /\ slot' = [slot EXCEPT ![c].pc = "ping"]
            /\ UNCHANGED phase
       ELSE /\ Catch(c, slot[c])
            /\ UNCHANGED connected
    /\ UNCHANGED <<client, connects, coll, origin, now, clients>>

\* await client.db(dbName).admin().ping() settles; getDb returns the handle
PingDone(c, ok, t) ==
    /\ Running
    /\ slot[c].pc = "ping"
    /\ t \in (IF ok /\ Stamps(slot[c]) THEN Times ELSE {now})
    /\ IF ok
       THEN /\ slot' = [slot EXCEPT ![c] = Resume(slot[c], t)]
            /\ now' = t
            /\ UNCHANGED phase
       ELSE /\ Catch(c, slot[c])
            /\ UNCHANGED now
    /\ UNCHANGED <<client, connected, connects, coll, origin, clients>>

-----------------------------------------------------------------------------
(* process.on("SIGINT") / process.on("SIGTERM") of db.ts *)

\* the handler runs: with no client it exits at once, else it awaits
\* client.close() while the rest of the program goes on
SignalStart ==
    /\ Running
    /\ slot[Sig].pc = "idle"
    /\ IF client = "null"
       THEN /\ slot' = [slot EXCEPT ![Sig] =
                          [Idle EXCEPT !.kind = "SIGNAL", !.pc = "done"]]
            /\ phase' = "exited"
       ELSE /\ slot' = [slot EXCEPT ![Sig] =
                          Called([Idle EXCEPT !.kind = "SIGNAL", !.pc = "close"],
                                 "close")]
            /\ phase' = phase
    /\ UNCHANGED <<client, connected, connects, coll, origin, now, clients>>

\* await client.close() settles: process.exit(0); a rejection is unhandled
\* and ends the process as well.  The invocations still suspended and the
\* sockets end with the process; the collection stays.
CloseDone(ok) ==
    /\ Running
    /\ slot[Sig].pc = "close"
    /\ connected' = IF ok THEN FALSE ELSE connected
    /\ slot' = [c \in Callers |->
                 IF c = Sig THEN [slot[Sig] EXCEPT !.pc = "done", !.threw = ~ok]
                 ELSE Idle]
    /\ clients' = {}
    /\ phase' = "exited"
    /\ UNCHANGED <<client, connects, coll, origin, now>>

-----------------------------------------------------------------------------
(* startServer *)

BootStart ==
    /\ phase = "boot"
    /\ slot[0].pc = "idle"
    /\ GetDb(0, Invocation("BOOT", NoArg), now)
    /\ UNCHANGED <<phase, coll, origin, clients>>

\* await db.admin().ping() settles: health check, or startServer's test
AdminPingDone(c, ok) ==
    /\ Running
    /\ slot[c].pc = "adminPing"
    /\ IF ok
       THEN /\ slot' = [slot EXCEPT ![c] =
                          IF slot[c].kind = "BOOT" THEN [slot[c] EXCEPT !.pc = "done"]
                          ELSE Respond(slot[c], 200)]
            /\ phase' = IF slot[c].kind = "BOOT" THEN "listening" ELSE phase
       ELSE Catch(c, slot[c])
    /\ UNCHANGED <<client, connected, connects, coll, origin, now,
                   clients>>

HealthStart(c) ==
    /\ phase = "listening"
    /\ Free(c)
    /\ GetDb(c, Invocation("HEALTH", NoArg), now)
    /\ UNCHANGED <<phase, coll, origin, clients>>

-----------------------------------------------------------------------------
(* GET /api/feedback?slug= *)

\* String(req.query.slug ?? "")
QuerySlug(q) == StringOf(Coalesce(q, Empty))


\* Mutant of MissingSlug: only an absent parameter is refused
MissingSlugUndefined(slug) == slug.k = "undef"

\* if (!slug)
MissingSlug(slug) == ~Truthy(slug)

GetStart(c, q) ==
    LET s == Invocation("GET", [NoArg EXCEPT !.slug = q])
    IN /\ phase = "listening"
       /\ Free(c)
       /\ IF MissingSlug(QuerySlug(q))
          THEN /\ slot' = [slot EXCEPT ![c] = Respond(s, 400)]
               /\ UNCHANGED <<client, connected, connects, now>>
          ELSE GetDb(c, s, now)
       /\ UNCHANGED <<phase, coll, origin, clients>>

CreateIndexDone(c, ok) ==
    /\ Running
    /\ slot[c].pc = "createIndex"
    /\ IF ok
       THEN /\ slot' = [slot EXCEPT ![c] = Called([slot[c] EXCEPT !.pc = "find"],
                                                  "find")]
            /\ UNCHANGED phase
       ELSE Catch(c, slot[c])
    /\ UNCHANGED <<client, connected, connects, coll, origin, now, clients>>

FindDone(c, ok, rev) ==
    /\ Running
    /\ slot[c].pc = "find"
    /\ IF ok
       THEN /\ slot' = [slot EXCEPT ![c] =
                          [Respond(slot[c], 200) EXCEPT
                             !.out = Response(Find(coll, QuerySlug(slot[c].arg.slug),
                                                  rev))]]
            /\ UNCHANGED phase
       ELSE Catch(c, slot[c])
    /\ UNCHANGED <<client, connected, connects, coll, origin, now,
                   clients>>

-----------------------------------------------------------------------------
(* POST /api/feedback *)

PostStart(c, b, t) ==
    LET s == Invocation("POST", b)
    IN /\ phase = "listening"
       /\ Free(c)
       /\ IF ~SchemaOk(b)
          THEN /\ t = now
               /\ slot' = [slot EXCEPT ![c] = Respond(s, 400)]
               /\ UNCHANGED <<client, connected, connects, now>>
          ELSE IF Honeypot(Parsed(b))
          THEN /\ t = now
               /\ slot' = [slot EXCEPT ![c] = Respond(s, 200)]
               /\ UNCHANGED <<client, connected, connects, now>>
          ELSE GetDb(c, s, t)
       /\ UNCHANGED <<phase, coll, origin, clients>>

\* await collection.insertOne(doc) settles
InsertDone(c, ok) ==
    /\ Running
    /\ slot[c].pc = "insertOne"
    /\ IF ok
       THEN /\ coll' = Append(coll, WithId(slot[c].doc, NextId))
            /\ origin' = Append(origin, [via |-> slot[c].kind,
                                        slug |-> slot[c].doc.slug])
            /\ IF slot[c].kind = "POST"
               THEN slot' = [slot EXCEPT ![c] =
                               [Respond(slot[c], 201) EXCEPT !.rid = NextId]]
               ELSE slot' = [slot EXCEPT ![c] =
                               IoEmit([slot[c] EXCEPT !.pc = "done", !.rid = NextId],
                                      ResponseMsg(slot[c].doc, NextId))]
            /\ UNCHANGED phase
       ELSE /\ Catch(c, slot[c])
            /\ UNCHANGED <<coll, origin>>
    /\ UNCHANGED <<client, connected, connects, now, clients>>

-----------------------------------------------------------------------------
(* DELETE /api/feedback/:id *)

DeleteStart(c, x) ==
    LET s == Invocation("DELETE", [NoArg EXCEPT !.id = x])
    IN /\ phase = "listening"
       /\ Free(c)
       /\ IF ~IsValidId(x)
          THEN /\ slot' = [slot EXCEPT ![c] = Respond(s, 400)]
               /\ UNCHANGED <<client, connected, connects, now>>
          ELSE GetDb(c, s, now)
       /\ UNCHANGED <<phase, coll, origin, clients>>


\* Mutant of DeleteStatus: deletedCount is not looked at
DeleteStatusIgnored(deletedCount) == 200

\* result.deletedCount === 0 ? 404 : 200
DeleteStatus(deletedCount) == IF deletedCount = 0 THEN 404 ELSE 200

\* await collection.deleteOne({_id}) settles
DeleteDone(c, ok) ==
    /\ Running
    /\ slot[c].pc = "deleteOne"
    /\ IF ok
       THEN /\ coll' = Without(coll, slot[c].arg.id.n)
            /\ slot' = [slot EXCEPT ![c] =
                          Respond(slot[c], DeleteStatus(Len(coll) - Len(coll')))]
            /\ UNCHANGED phase
       ELSE /\ Catch(c, slot[c])
            /\ UNCHANGED coll
    /\ UNCHANGED <<client, connected, connects, origin, now, clients>>

-----------------------------------------------------------------------------
(* Socket.IO *)

SockConnect(k) ==
    /\ phase = "listening"
    /\ k \notin clients
    /\ clients' = clients \cup {k}
    /\ UNCHANGED <<client, connected, connects, phase, slot, coll, origin,
                   now>>

SockDisconnect(k) ==
    /\ Running
    /\ k \in clients
    /\ clients' = clients \ {k}
    /\ UNCHANGED <<client, connected, connects, phase, slot, coll, origin,
                   now>>

\* socket.on("chat:send"), on socket k
ChatSend(c, k, data, t) ==
    /\ phase = "listening"
    /\ Free(c)
    /\ k \in clients
    /\ NextId + Pending <= MaxIds
    /\ GetDb(c, [Invocation("CHAT", data) EXCEPT !.sock = k], t)
    /\ UNCHANGED <<phase, coll, origin, clients>>

-----------------------------------------------------------------------------
(* Inputs *)

SlugA == Str("a", 0, 1)
SlugB == Str("b", 0, SlugMax)
Hello == Str("hello", 1, 5)

Body(slug, name, message, email, hp) ==
    [slug |-> slug, name |-> name, message |-> message, email |-> email,
     hp |-> hp, id |-> NoId, net |-> Net(NoHeader, Addr)]

BaseBody == Body(SlugA, Undef, Hello, Undef, Undef)

\* bodies that pass the schema with an empty honeypot
GoodBodies ==
    {BaseBody,
     [Body(SlugB, Str("bob", 1, NameMax), Str("long", 0, MessageMax),
           Str("addr", 0, 7), Str("", 1, 0))
        EXCEPT !.net = Net(Header(Str("203", 1, 11), 1), Addr)],
     Body(SlugA, Undef, Hello, Empty, Empty)}

\* bodies that pass the schema with a filled honeypot
BotBodies == {[BaseBody EXCEPT !.hp = Str("bot", 1, 3)]}

\* bodies that fail the schema
BadBodies ==
    {[BaseBody EXCEPT !.slug = Undef],
     [BaseBody EXCEPT !.slug = Empty],
     [BaseBody EXCEPT !.slug = Str("c", 0, SlugMax + 1)],
     [BaseBody EXCEPT !.message = Undef],
     [BaseBody EXCEPT !.message = Str("", 2, 0)],
     [BaseBody EXCEPT !.message = Str("long", 0, MessageMax + 1)],
     [BaseBody EXCEPT !.name = Str("", 1, 0)],
     [BaseBody EXCEPT !.name = Str("bob", 0, NameMax + 1)],
     [BaseBody EXCEPT !.name = NonStr],
     [BaseBody EXCEPT !.email = Str("junk", 0, 4)],
     [BaseBody EXCEPT !.email = Str("addr", 1, 7)],
     [BaseBody EXCEPT !.hp = NonStr, !.slug = SlugB]}

Bodies == GoodBodies \cup BotBodies \cup BadBodies

Queries == {Undef, Empty, NonStr, SlugA, SlugB}

Oid(i) == [hex |-> TRUE, n |-> i]
IdParams == {NoId} \cup {Oid(i) : i \in 1..(MaxIds + 1)}

\* chat:send payloads: nothing validates them
ChatData ==
    {Body(SlugA, Undef, Hello, Undef, Undef),
     Body(Undef, NonStr, Empty, Undef, Undef)}

-----------------------------------------------------------------------------
(* The program *)

Init ==
    /\ client = "null"
    /\ connected = FALSE
    /\ connects = 0
    /\ phase = "boot"
    /\ slot = [c \in Callers |-> Idle]
    /\ coll = <<>>
    /\ origin = <<>>
    /\ now = 0
    /\ clients = {}

Next ==
    \/ BootStart
    \/ \E c \in Callers, ok \in BOOLEAN : ConnectDone(c, ok)
    \/ \E c \in Callers, ok \in BOOLEAN, t \in Times : PingDone(c, ok, t)
    \/ \E c \in Callers, ok \in BOOLEAN : AdminPingDone(c, ok)
    \/ \E c \in Req : HealthStart(c)
    \/ \E c \in Req, q \in Queries : GetStart(c, q)
    \/ \E c \in Callers, ok \in BOOLEAN : CreateIndexDone(c, ok)
    \/ \E c \in Callers, ok, rev \in BOOLEAN : FindDone(c, ok, rev)
    \/ \E c \in Req, b \in Bodies, t \in Times :
         Room(b, MaxIds) /\ PostStart(c, b, t)
    \/ \E c \in Callers, ok \in BOOLEAN : InsertDone(c, ok)
    \/ \E c \in Req, x \in IdParams : DeleteStart(c, x)
    \/ \E c \in Callers, ok \in BOOLEAN : DeleteDone(c, ok)
    \/ \E k \in Sock : SockConnect(k)
    \/ \E k \in Sock : SockDisconnect(k)
    \/ \E c \in Req, k \in Sock, d \in ChatData, t \in Times : ChatSend(c, k, d, t)
    \/ SignalStart
    \/ \E ok \in BOOLEAN : CloseDone(ok)

Spec == Init /\ [][Next]_vars

-----------------------------------------------------------------------------
(* The gateway on its own: getDb called by any importer of db.ts, at any    *)
(* time and in any interleaving, each call ending with the handle or with   *)
(* the error thrown to its caller.                                          *)

Call(c) ==
    /\ Running
    /\ Free(c)
    /\ GetDb(c, Invocation("CALL", NoArg), now)
    /\ UNCHANGED <<phase, coll, origin, clients>>

NextGateway ==
    \/ \E c \in Callers \ {Sig} : Call(c)
    \/ \E c \in Callers, ok \in BOOLEAN : ConnectDone(c, ok)
    \/ \E c \in Callers, ok \in BOOLEAN : PingDone(c, ok, now)
    \/ SignalStart
    \/ \E ok \in BOOLEAN : CloseDone(ok)

SpecGateway == Init /\ [][NextGateway]_vars

-----------------------------------------------------------------------------
(* The feedback routes with two requests in flight at a time: each handler  *)
(* runs to its next await and the awaits of the two settle in any order,    *)
(* each with success or failure.                                            *)

Pair == {1, 2}

PairIds == {Oid(i) : i \in 1..MaxIds}

NextPair ==
    \/ BootStart
    \/ \E ok \in BOOLEAN : ConnectDone(0, ok)
    \/ \E ok \in BOOLEAN : PingDone(0, ok, now)
    \/ \E ok \in BOOLEAN : AdminPingDone(0, ok)
    \/ \E c \in Pair : GetStart(c, SlugA)
    \/ \E c \in Pair, ok \in BOOLEAN : CreateIndexDone(c, ok)
    \/ \E c \in Pair, ok \in BOOLEAN, rev \in BOOLEAN : FindDone(c, ok, rev)
    \/ \E c \in Pair, t \in Times :
         Room(BaseBody, MaxIds) /\ PostStart(c, BaseBody, t)
    \/ \E c \in Pair, ok \in BOOLEAN : InsertDone(c, ok)
    \/ \E c \in Pair, x \in PairIds : DeleteStart(c, x)
    \/ \E c \in Pair, ok \in BOOLEAN : DeleteDone(c, ok)

SpecPair == Init /\ [][NextPair]_vars

-----------------------------------------------------------------------------
(* The feedback routes on a collection that outgrows limit(150): one        *)
(* request at a time, POSTs and GETs only, the store reachable once the     *)
(* server listens.  The first Varied inserts may be of either slug and may  *)
(* read a clock that has not advanced; every later insert is of SlugA at    *)
(* the next clock value.                                                    *)

CapIds == Limit + Over

CapBodies ==
    IF NextId <= Varied
    THEN {BaseBody, [BaseBody EXCEPT !.slug = SlugB]}
    ELSE {BaseBody}

CapTimes == IF NextId <= Varied THEN {now, now + 1} ELSE {now + 1}

CapQueries == {SlugA, SlugB}

NextCap ==
    \/ BootStart
    \/ \E ok \in BOOLEAN : ConnectDone(0, ok)
    \/ \E ok \in BOOLEAN : PingDone(0, ok, now)
    \/ \E ok \in BOOLEAN : AdminPingDone(0, ok)
    \/ \E c \in Req, q \in CapQueries : GetStart(c, q)
    \/ \E c \in Req : CreateIndexDone(c, TRUE)
    \/ \E c \in Req, rev \in BOOLEAN : FindDone(c, TRUE, rev)
    \/ \E c \in Req, b \in CapBodies, t \in CapTimes :
         Room(b, CapIds) /\ PostStart(c, b, t)
    \/ \E c \in Req : InsertDone(c, TRUE)

SpecCap == Init /\ [][NextCap]_vars

-----------------------------------------------------------------------------
(* Properties *)

\* caller c's invocation returns in this step
Completes(c) == slot'[c] # slot[c] /\ slot'[c].pc = "done"

\* the ids issued so far that no document has
Gone == {i \in 1..Len(origin) : i \notin Ids(coll)}

\* C2: a POST whose body passes the schema and whose hp is non-empty after
\* trimming is answered with the success response (200, no id) in the step it
\* arrives in, without any gateway or store call, and the collection is left
\* as it was.
C2_HoneypotSilent ==
    [][\A c \in Callers :
         (/\ Completes(c)
          /\ slot'[c].kind = "POST"
          /\ SchemaOk(slot'[c].arg)
          /\ Truthy(Trim(slot'[c].arg.hp)))
         => (/\ slot'[c].status = 200
             /\ slot'[c].rid = 0
             /\ slot'[c].calls = <<>>
             /\ coll' = coll
             /\ origin' = origin)]_vars

\* C2 witness: a honeypot POST was answered 200 while documents are stored
C2_Witness ==
    \E c \in Callers :
      /\ slot[c].kind = "POST" /\ slot[c].pc = "done"
      /\ Truthy(Trim(slot[c].arg.hp))
      /\ slot[c].status = 200
      /\ Len(coll) > 0

\* C3: a DELETE with a malformed id returns 400 without any gateway or store
\* call; with a well-formed id and no store failure it returns 200 when a
\* document has the id, removing that document and no other, and 404 when
\* none has, removing nothing; an id once removed is never stored again, so a
\* second DELETE of it returns 404.
C3_DeleteOutcomes ==
    [][/\ \A c \in Callers :
            (Completes(c) /\ slot'[c].kind = "DELETE")
            => LET x == slot'[c].arg.id
               IN /\ ~x.hex => (/\ slot'[c].status = 400
                                /\ slot'[c].calls = <<>>
                                /\ coll' = coll)
                  /\ (x.hex /\ ~slot'[c].threw)
                     => IF x.n \in Ids(coll)
                        THEN /\ slot'[c].status = 200
                             /\ Ids(coll') = Ids(coll) \ {x.n}
                             /\ Len(coll') = Len(coll) - 1
                        ELSE /\ slot'[c].status = 404
                             /\ coll' = coll
       /\ \A i \in Gone : i \notin Ids(coll')]_vars

\* C3 witness: a DELETE of an id that was stored and removed before returned 404
C3_Witness ==
    \E c \in Callers :
      /\ slot[c].kind = "DELETE" /\ slot[c].pc = "done"
      /\ slot[c].status = 404
      /\ slot[c].arg.id.n \in Gone

\* the bodies C7 calls valid
C7_Valid(b) ==
    /\ IsString(b.slug) /\ Length(b.slug) \in 1..200
    /\ IsString(b.message) /\ Length(Trim(b.message)) \in 1..1000
    /\ b.name = Undef \/ (IsString(b.name) /\ Length(Trim(b.name)) \in 1..40)
    /\ b.email = Undef \/ b.email = Empty \/ IsEmail(b.email)
    /\ b.hp = Undef \/ IsString(b.hp)

\* C7: a POST whose body fails the schema returns 400 and leaves the
\* collection as it was; a POST whose body passes it with an empty honeypot
\* changes nothing before its insertOne settles and then, unless the store
\* failed, has added exactly one document and returns 201 with that
\* document's id.
C7_PostOutcomes ==
    [][\A c \in Callers :
         /\ (Completes(c) /\ slot'[c].kind = "POST")
            => LET b == slot'[c].arg
               IN /\ ~C7_Valid(b) => (slot'[c].status = 400 /\ coll' = coll)
                  /\ (C7_Valid(b) /\ ~Truthy(Trim(b.hp)) /\ ~slot'[c].threw)
                     => /\ slot'[c].status = 201
                        /\ Len(coll') = Len(coll) + 1
                        /\ SubSeq(coll', 1, Len(coll)) = coll
                        /\ coll'[Len(coll')].id = slot'[c].rid
                        /\ slot'[c].rid \notin Ids(coll)
         /\ (slot'[c] # slot[c] /\ slot'[c].kind = "POST" /\ slot'[c].pc # "done")
            => coll' = coll]_vars

\* C7 witness: a POST returned 201 with the id of a stored document
C7_Witness ==
    \E c \in Callers :
      /\ slot[c].kind = "POST" /\ slot[c].pc = "done"
      /\ slot[c].status = 201
      /\ slot[c].rid \in Ids(coll)
      /\ Len(coll) > 1

\* C8: a GET whose slug parameter is missing or empty returns 400 in the
\* step it arrives in, having called neither getDb nor createIndex nor find,
\* and leaves the gateway and the collection as they were.
C8_MissingSlug ==
    [][\A c \in Callers :
         (/\ Completes(c)
          /\ slot'[c].kind = "GET"
          /\ slot'[c].arg.slug \in {Undef, Empty})
         => (/\ slot'[c].status = 400
             /\ slot'[c].calls = <<>>
             /\ UNCHANGED <<client, connected, connects, coll, origin>>)]_vars

\* C8 witness: a GET without slug was answered 400 while documents are stored
C8_Witness ==
    \E c \in Callers :
      /\ slot[c].kind = "GET" /\ slot[c].pc = "done"
      /\ slot[c].arg.slug = Undef
      /\ slot[c].status = 400
      /\ Len(coll) > 0

\* the documents of collection cl with slug g, other than the one with id
\* i, that sort({createdAt: -1}) may put before it
Rivals(cl, i, g) ==
    LET k == CHOOSE k \in 1..Len(cl) : cl[k].id = i
    IN {j \in 1..Len(cl) :
          /\ cl[j].slug = g
          /\ cl[j].id # i
          /\ cl[j].createdAt >= cl[k].createdAt}

\* The broadcast of chat:send alone: a handler emits nothing before its
\* insertOne settles; when the insert succeeds it appends one document with
\* the event's slug and emits exactly one chat:newMessage, to every socket
\* connected at that moment, with the event's message and the new id.
ChatBroadcast ==
    [][\A c \in Callers :
         /\ (Completes(c) /\ slot'[c].kind = "CHAT" /\ ~slot'[c].threw)
            => /\ Len(slot'[c].emits) = 1
               /\ slot'[c].emits[1].event = "chat:newMessage"
               /\ slot'[c].emits[1].to = clients
               /\ slot'[c].emits[1].msg.message = slot'[c].arg.message
               /\ slot'[c].emits[1].msg.id = slot'[c].rid
               /\ Len(coll') = Len(coll) + 1
               /\ coll'[Len(coll')].id = slot'[c].rid
               /\ coll'[Len(coll')].slug = slot'[c].arg.slug
         /\ (slot'[c].kind = "CHAT" /\ slot'[c].pc # "done")
            => slot'[c].emits = <<>>]_vars

\* C5: a chat:send whose insert succeeds emits exactly one chat:newMessage,
\* to every socket connected at that moment (the sender among them when it
\* is still connected), with the event's message and the id of the document
\* just stored; and every GET for the event's slug that is made after the
\* insert and whose store calls succeed answers 200 and lists that id while
\* the document is stored.
C5_Original ==
    [][\A c \in Callers :
         /\ (Completes(c) /\ slot'[c].kind = "CHAT" /\ ~slot'[c].threw)
            => /\ Len(slot'[c].emits) = 1
               /\ slot'[c].emits[1].event = "chat:newMessage"
               /\ slot'[c].emits[1].to = clients
               /\ slot'[c].sock \in clients
                  => slot'[c].sock \in slot'[c].emits[1].to
               /\ slot'[c].emits[1].msg.message = slot'[c].arg.message
               /\ slot'[c].emits[1].msg.id = slot'[c].rid
               /\ coll'[Len(coll')].id = slot'[c].rid
         /\ (Completes(c) /\ slot'[c].kind = "GET" /\ ~slot'[c].threw)
            => \A i \in 1..(slot'[c].after - 1) :
                 (/\ origin[i].via = "CHAT"
                  /\ origin[i].slug = slot'[c].arg.slug
                  /\ i \in Ids(coll))
                 => (slot'[c].status = 200 /\ i \in Ids(slot'[c].out))]_vars

\* C6: when an await of a chat:send handler throws, the handler returns
\* having emitted nothing (no broadcast, no error event), the collection is
\* as it was, and the process is still listening with the handler free for
\* the next event.
C6_ChatFailureSwallowed ==
    [][\A c \in Callers :
         (Completes(c) /\ slot'[c].kind = "CHAT" /\ slot'[c].threw)
         => (/\ slot'[c].emits = <<>>
             /\ slot'[c].status = 0
             /\ coll' = coll
             /\ origin' = origin
             /\ phase' = "listening"
             /\ clients' = clients)]_vars

\* C6 witness: a chat:send failed while clients are connected and documents
\* are stored
C6_Witness ==
    \E c \in Callers :
      /\ slot[c].kind = "CHAT" /\ slot[c].pc = "done" /\ slot[c].threw
      /\ Cardinality(clients) = 2
      /\ Len(coll) > 0

\* C10: once the client is set (so once any getDb call has returned a
\* handle) no step makes another client or calls connect again, and every
\* getDb call goes on to the caller's own store call in the step it is made
\* in; connect is invoked at most once in all.
C10_Idempotent ==
    [][/\ client = "set"
          => (/\ client' = "set"
              /\ connects' = connects
              /\ \A c \in Callers \ {Sig} :
                   (slot'[c] # slot[c] /\ slot'[c].calls # <<>>
                    /\ slot[c].pc \in {"idle", "done"})
                   => (/\ slot'[c].calls[1] = "getDb"
                       /\ Len(slot'[c].calls) = 2
                       /\ ~slot'[c].threw))
       /\ connects' <= 1]_vars

\* C10 witness: after startServer's getDb, a health check and so a second
\* getDb call has been answered
C10_Witness ==
    \E c \in Callers \ {0} :
      /\ slot[c].kind = "HEALTH" /\ slot[c].pc = "done" /\ slot[c].status = 200
      /\ connects = 1 /\ connected

\* C9 as stated: a getDb call that fails in connect or ping throws to its
\* caller and leaves `client` unset, and a getDb call made while no
\* connection has succeeded and none is being attempted starts a connection
\* attempt of its own instead of returning a handle.
C9_Original ==
    [][\A c \in Callers :
         /\ (Completes(c) /\ slot'[c].kind = "CALL" /\ slot'[c].threw)
            => client' = "null"
         /\ (/\ slot'[c] # slot[c] /\ slot[c].pc \in {"idle", "done"}
             /\ slot'[c].kind = "CALL"
             /\ ~connected
             /\ \A d \in Callers : slot[d].pc \notin {"connect", "ping"})
            => (slot'[c].pc = "connect" /\ connects' = connects + 1)]_vars

Min(a, b) == IF a <= b THEN a ELSE b

\* a GET of caller c answers 200 in this step
Lists(c) ==
    Completes(c) /\ slot'[c].kind = "GET" /\ slot'[c].status = 200

\* the POST ids a GET made with `after` as the next id is to list: those
\* of slug g returned before it and still stored in cl
Posted(cl, g, after) ==
    {i \in Ids(cl) : i < after /\ origin[i].via = "POST" /\ origin[i].slug = g}

\* in the listing out, document j comes after no document with an earlier
\* createdAt
InOrder(out, j) == \A k \in 1..j : out[k].createdAt >= out[j].createdAt

\* C1 as stated: a GET answered 200 lists every id that a POST of that slug
\* returned before the GET was made and that is still stored, and lists it
\* after no record with an earlier createdAt.
C1_Original ==
    [][\A c \in Callers :
         Lists(c) =>
           \A out \in {slot'[c].out} :
             \A listed \in {Ids(out)} :
               /\ Posted(coll, QuerySlug(slot'[c].arg.slug), slot'[c].after)
                    \subseteq listed
               /\ \A j \in 1..Len(out) :
                    (origin[out[j].id].via = "POST" /\ out[j].id < slot'[c].after)
                    => InOrder(out, j)]_vars

\* C1: a GET answered 200 lists every id that a POST of that slug returned
\* before the GET was made and that is still stored, unless 150 or more
\* other documents of the slug have a createdAt greater than or equal to its
\* own; every POST id it lists comes after no record with an earlier
\* createdAt.
C1_ListedWhileRecent ==
    [][\A c \in Callers :
         Lists(c) =>
           \A out \in {slot'[c].out} :
             \A listed \in {Ids(out)} :
               /\ \A i \in Posted(coll, QuerySlug(slot'[c].arg.slug),
                                  slot'[c].after) :
                    \/ i \in listed
                    \/ Cardinality(Rivals(coll, i, QuerySlug(slot'[c].arg.slug)))
                         >= Limit
               /\ \A j \in 1..Len(out) :
                    (origin[out[j].id].via = "POST" /\ out[j].id < slot'[c].after)
                    => InOrder(out, j)]_vars

\* C1 witness: a GET of a slug with more than 150 documents has listed the
\* id of a POST that was followed by other inserts before the GET was made
C1_Witness ==
    \E c \in Req :
      /\ slot[c].kind = "GET" /\ slot[c].pc = "done" /\ slot[c].status = 200
      /\ Len(Matching(coll, slot[c].arg.slug)) > Limit
      /\ \E j \in 1..Len(slot[c].out) :
           /\ origin[slot[c].out[j].id].via = "POST"
           /\ slot[c].out[j].id + 1 < slot[c].after

\* out is, document by document, the projection of documents of m
Projects(out, m) ==
    \A j \in 1..Len(out) :
      \E k \in 1..Len(m) : m[k].id = out[j].id /\ out[j] = Project(m[k])

\* C4: a GET with a non-empty slug whose store calls succeed answers 200
\* with min(150, n) records, n the number of stored documents of that slug:
\* each is the projection of a stored document of the slug, no document
\* twice, in descending createdAt order, and no document left out is newer
\* than a listed one.
C4_CappedListing ==
    [][\A c \in Callers :
         /\ (/\ Completes(c) /\ slot'[c].kind = "GET" /\ ~slot'[c].threw
             /\ Truthy(QuerySlug(slot'[c].arg.slug)))
            => slot'[c].status = 200
         /\ Lists(c) =>
              \A out \in {slot'[c].out} :
                \A m \in {Matching(coll, QuerySlug(slot'[c].arg.slug))} :
                  \A listed \in {Ids(out)} :
                    /\ Truthy(QuerySlug(slot'[c].arg.slug))
                    /\ Len(out) = Min(Limit, Len(m))
                    /\ Len(out) <= Limit
                    /\ Cardinality(listed) = Len(out)
                    /\ Projects(out, m)
                    /\ \A j \in 1..(Len(out) - 1) :
                         out[j].createdAt >= out[j + 1].createdAt
                    /\ \A k \in 1..Len(m) :
                         m[k].id \notin listed
                         => \A j \in 1..Len(out) :
                              m[k].createdAt <= out[j].createdAt]_vars

\* C4 witness: a GET has answered with 150 records of a slug that has more,
\* from a collection that also holds a document of another slug
C4_Witness ==
    \E c \in Req :
      /\ slot[c].kind = "GET" /\ slot[c].pc = "done" /\ slot[c].status = 200
      /\ Len(slot[c].out) = Limit
      /\ Len(Matching(coll, slot[c].arg.slug)) > Limit
      /\ \E k \in 1..Len(coll) : coll[k].slug # slot[c].arg.slug

\* the field rules of a feedback record
ValidRecord(d) ==
    /\ IsString(d.slug) /\ Length(d.slug) >= 1 /\ Length(d.slug) <= SlugMax
    /\ IsString(d.name) /\ Length(d.name) >= 1 /\ Length(d.name) <= NameMax
    /\ IsString(d.message) /\ d.message = Trim(d.message)
    /\ Length(d.message) >= 1 /\ Length(d.message) <= MessageMax
    /\ d.createdAt \in 0..now

\* C11 as stated: every document of the collection has a non-empty slug of
\* at most 200 characters, a name of 1 to 40 characters, a trimmed message
\* of 1 to 1000 characters and a createdAt read from the server's clock.
C11_RecordsValid == \A k \in 1..Len(coll) : ValidRecord(coll[k])

\* the awaits of store operations a route handler can be suspended at
StoreAwaits == {"connect", "ping", "createIndex", "find", "insertOne", "deleteOne"}

\* C12: when an await of a store operation of a GET, POST or DELETE handler
\* throws, the handler, which has sent no response so far, ends in that step
\* with status 500 and makes no further gateway or store call; the step
\* changes nothing else: the collection, the ids, the gateway, the process
\* phase and the other request's invocation are as they were.
C12_FailureAnswered ==
    [][\A c \in Pair :
         (/\ slot[c].kind \in {"GET", "POST", "DELETE"}
          /\ slot[c].pc \in StoreAwaits
          /\ slot'[c].threw)
         => /\ slot[c].status = 0
            /\ slot'[c].pc = "done"
            /\ slot'[c].status = 500
            /\ slot'[c].calls = slot[c].calls
            /\ slot'[c].out = <<>>
            /\ coll' = coll /\ origin' = origin
            /\ client' = client /\ connected' = connected
            /\ connects' = connects
            /\ phase' = phase /\ phase = "listening"
            /\ \A d \in Callers \ {c} : slot'[d] = slot[d]]_vars

\* C12 witness: a request has been answered 500 after its store operation
\* failed while the other request is still awaiting its own
C12_Witness ==
    \E c \in Pair, d \in Pair :
      /\ c # d
      /\ slot[c].pc = "done" /\ slot[c].threw /\ slot[c].status = 500
      /\ slot[d].pc \in StoreAwaits

\* C14: a DELETE whose deleteOne succeeds answers 200 when the document of
\* that id is stored and 404 when it is not, and removes that document and
\* no other; an id that is gone never comes back.  So of two DELETEs of one
\* stored id in flight together the first to settle answers 200, the other
\* 404, and never both 200.
C14_OneDeleteWins ==
    [][/\ \A c \in Pair :
            (/\ Completes(c) /\ slot'[c].kind = "DELETE" /\ ~slot'[c].threw
             /\ IsValidId(slot'[c].arg.id))
            => \A x \in {slot'[c].arg.id.n} :
                 /\ slot'[c].status = (IF x \in Ids(coll) THEN 200 ELSE 404)
                 /\ Ids(coll') = Ids(coll) \ {x}
                 /\ Len(coll') = Cardinality(Ids(coll'))
                 /\ \A k \in 1..Len(coll) :
                      coll[k].id # x => \E j \in 1..Len(coll') : coll'[j] = coll[k]
                 /\ \A d \in Pair \ {c} :
                      (/\ slot[d].kind = "DELETE" /\ slot[d].arg.id.n = x
                       /\ slot[d].pc = "done" /\ slot[d].status = 200)
                      => slot'[c].status = 404
       /\ \A i \in 1..Len(origin) : i \notin Ids(coll) => i \notin Ids(coll')]_vars

\* C14 witness: two DELETEs of the same id were awaiting deleteOne together
\* and both have settled, one answered 200 and the other 404, with another
\* document still stored
C14_Witness ==
    \E c \in Pair, d \in Pair :
      /\ c # d
      /\ slot[c].kind = "DELETE" /\ slot[d].kind = "DELETE"
      /\ slot[c].arg.id = slot[d].arg.id
      /\ slot[c].after = slot[d].after
      /\ slot[c].pc = "done" /\ slot[c].status = 200 /\ ~slot[c].threw
      /\ slot[d].pc = "done" /\ slot[d].status = 404 /\ ~slot[d].threw
      /\ Len(coll) > 0

\* C13 as stated: connect is invoked by one getDb call only, and a getDb
\* call returns the handle only when connect has succeeded and no call is
\* still awaiting the connect or the ping of the initialization.
C13_Original ==
    [][/\ connects' <= 1
       /\ \A c \in Callers :
            (/\ slot'[c] # slot[c]
             /\ slot'[c].kind = "CALL" /\ slot'[c].pc = "done"
             /\ ~slot'[c].threw)
            => /\ connected'
               /\ \A d \in Callers : slot'[d].pc \notin {"connect", "ping"}]_vars

=============================================================================
